---- MODULE Spec2Model ----
(***************************************************************************)
(* Seq2Seq with attention: the orchestrator's forward loop (teacher        *)
(* forcing / greedy feeding), its construction, and the temperature        *)
(* softmax of the attention module.                                        *)
(*                                                                         *)
(* Tensors are functions over the source's 0-based index ranges.  The      *)
(* recurrent networks are uninterpreted: an encoder or GRU hidden state is *)
(* a term recording what it was computed from; decoder scores are chosen   *)
(* from a bounded family, and decMemo makes the choice a function of the   *)
(* decoder's arguments (its parameters do not change during forward).      *)
(***************************************************************************)
EXTENDS Integers, Sequences, FiniteSets, TLC

\* ---------------------------------------------------------------- bounds
MaxTrgLen == 3
MaxBatch == 2
MaxSrcLen == 2
MaxLayers == 1
MaxHidDim == 2

\* decoder.output_dim (trg_vocab_size); token indices are 0..VocabSize-1
VocabSize == 2

\* softmax's default temperature
Temperature == 10

Vocab == 0 .. (VocabSize - 1)
\* teacher_forcing_ratio and the draws of random.random(), which lie in
\* [0,1), are in hundredths
Ratios == {0, 50, 100}
\* values of v(energy), multiples of the temperature
Energies == {0 - Temperature, 0, Temperature}

VARIABLES
  pc,             \* "UNBUILT","IDLE","INIT","STEPPING","DONE","ATTN","ATTN_DONE"
  encoder,        \* self.encoder: [hid_dim, n_layers, bidirectional]
  decoder,        \* self.decoder: [dec_hid_dim, output_dim]
  src, trg, teacher_forcing_ratio,   \* forward's arguments
  seed,           \* the draws the seeded generator produces, in order
  rng,            \* the draws random.random() has yet to return
  outputs,        \* [trg_len, batch, vocab] score tensor
  enc_states,     \* encoder outputs
  hidden,         \* decoder hidden state, a 1-layer stack
  cell,           \* encoder cell stack (unused by forward)
  input,          \* current decoder input row
  t,              \* loop index
  encCalls,       \* encoder invocations in the current forward call
  log,            \* decoder invocations of the current forward call
  decMemo,        \* the decoder's function, as far as it has been evaluated
  run,            \* number of forward calls started
  prev,           \* what the previous forward call fed and returned
  x,              \* softmax's argument, [src_len, batch]
  a_t             \* Attention.forward's result

vars == <<pc, encoder, decoder, src, trg, teacher_forcing_ratio, seed, rng, outputs,
          enc_states, hidden, cell, input, t, encCalls, log, decMemo, run,
          prev, x, a_t>>

fwdVars == <<src, trg, teacher_forcing_ratio, seed, rng, outputs, enc_states, hidden,
             cell, input, t, encCalls, log, decMemo, run, prev>>

\* ------------------------------------------------------------ tensors
Tensor2(n, m, S) == [0 .. (n - 1) -> [0 .. (m - 1) -> S]]
Dim0(a) == Cardinality(DOMAIN a)
Dim1(a) == Cardinality(DOMAIN a[0])

\* ------------------------------------------------------------ Encoder
n_directions(enc) == IF enc.bidirectional THEN 2 ELSE 1

\* hidden / cell: [n_layers * n_directions] stacks of final states
EncTerm(kind, k) == [op |-> kind, k |-> k, input |-> <<>>, prev |-> <<>>, enc |-> <<>>]

EncoderForward(enc, s) ==
  LET n == enc.n_layers * n_directions(enc) IN
  [outputs |-> [i \in 0 .. (Dim0(s) - 1) |-> EncTerm("enc_out", i)],
   hidden  |-> [k \in 0 .. (n - 1) |-> EncTerm("h_n", k)],
   cell    |-> [k \in 0 .. (n - 1) |-> EncTerm("c_n", k)]]

\* ------------------------------------------------------------ Decoder
RowSeq(row) == [i \in 1 .. Cardinality(DOMAIN row) |-> row[i - 1]]

\* the GRU's new hidden state, a function of the fed input, the old state
\* and (through the attention context) the encoder outputs
DecoderHidden(inp, hid, enc_out) ==
  <<[op |-> "gru", k |-> 0, input |-> RowSeq(inp), prev |-> hid,
     enc |-> RowSeq(enc_out)]>>

\* score tensors [batch, vocab] a decoder call may return: a peak at token
\* (a + c*b) mod vocab for element b, or the same score everywhere (a tie)
Predictions(batch) ==
  {[b \in 0 .. (batch - 1) |-> [v \in Vocab |-> IF v = (a + c * b) % VocabSize THEN 1 ELSE 0]] :
     a \in Vocab, c \in 0 .. 1}
  \cup {[b \in 0 .. (batch - 1) |-> [v \in Vocab |-> 1]]}

MemoKey(inp, hid, enc_out) == [input |-> inp, hidden |-> hid, enc |-> enc_out]

\* prediction p is what the decoder returns for these arguments
DecoderReturns(inp, hid, enc_out, p) ==
  \A m \in decMemo : m.key = MemoKey(inp, hid, enc_out) => m.prediction = p

\* ------------------------------------------------------------ Seq2Seq
\* the assertion of __init__ is commented out: every pair is accepted
Seq2SeqInit(enc, dec) == TRUE

ZeroOutputs(trg_len, batch_size) ==
  [p \in 0 .. (trg_len - 1) |-> [b \in 0 .. (batch_size - 1) |-> [v \in Vocab |-> 0]]]

\* slip: the state left by an earlier call is kept
InitialHiddenStale(h) == IF hidden # <<>> THEN hidden ELSE <<h[Dim0(h) - 1]>>

\* slip: hidden[0] in place of hidden[-1]
InitialHiddenFirst(h) == <<h[0]>>

\* hidden[-1].unsqueeze(0)
InitialHidden(h) == <<h[Dim0(h) - 1]>>

FirstInput(tr) == tr[0]

\* argmax(-1): the first index holding the maximum
ArgmaxRow(r) ==
  CHOOSE v \in DOMAIN r :
    /\ \A w \in DOMAIN r : r[w] <= r[v]
    /\ \A w \in DOMAIN r : w < v => r[w] < r[v]

Argmax(output) == [b \in DOMAIN output |-> ArgmaxRow(output[b])]

\* slip: <= in place of <
TeacherForceLE(draw, ratio) == draw <= ratio

TeacherForce(draw, ratio) == draw < ratio

\* slip: the branches exchanged
NextInputSwapped(teacher_force, trg_t, top1) == IF teacher_force THEN top1 ELSE trg_t

\* slip: the choice made for element 0 only
NextInputMixed(teacher_force, trg_t, top1) ==
  [b \in DOMAIN trg_t |-> IF teacher_force /\ b = 0 THEN trg_t[b] ELSE top1[b]]

NextInput(teacher_force, trg_t, top1) == IF teacher_force THEN trg_t ELSE top1

\* slip: outputs[t-1] = output
StoreOutputShifted(outs, tt, output) == [outs EXCEPT ![tt - 1] = output]

\* slip: outputs[t:] = output
StoreOutputFrom(outs, tt, output) ==
  [p \in DOMAIN outs |-> IF p >= tt THEN output ELSE outs[p]]

StoreOutput(outs, tt, output) == [outs EXCEPT ![tt] = output]

\* slip: range(1, trg_len - 1)
LoopStopsEarly(tt, n) == tt < n - 1

\* for t in range(1, trg_len)
LoopContinues(tt, n) == tt < n

trg_len == Dim0(trg)
batch_size == Dim1(trg)

NoCall ==
  /\ src = <<>> /\ trg = <<>> /\ teacher_forcing_ratio = 0
  /\ seed = <<>> /\ rng = <<>>
  /\ outputs = <<>> /\ enc_states = <<>> /\ hidden = <<>> /\ cell = <<>>
  /\ input = <<>> /\ t = 0 /\ encCalls = 0 /\ log = <<>> /\ decMemo = {}
  /\ run = 0 /\ prev = <<>>

NoAttn == x = <<>> /\ a_t = <<>>

EncoderConfigs ==
  [hid_dim : 1 .. MaxHidDim, n_layers : 1 .. MaxLayers, bidirectional : BOOLEAN]
DecoderConfigs == [dec_hid_dim : 1 .. MaxHidDim, output_dim : {VocabSize}]

\* seeded generators: constant and alternating streams of draws
SeedTapes(n) ==
  {[i \in 1 .. n |-> IF (a + c * i) % 2 = 0 THEN 0 ELSE 99] : a \in 0 .. 1, c \in 0 .. 1}

\* target batches: token (a*p + c*e) mod vocab at position p, element e
TrgTensors(n, b) ==
  {[p \in 0 .. (n - 1) |-> [e \in 0 .. (b - 1) |-> (a * p + c * e) % VocabSize]] :
     a \in 0 .. 1, c \in 0 .. 1}

\* configurations whose hidden sizes agree
RunConfigs ==
  {cfg \in EncoderConfigs \X DecoderConfigs : cfg[1].hid_dim = 1 /\ cfg[2].dec_hid_dim = 1}

\* a constructed model, before any forward call
Init ==
  /\ pc = "IDLE"
  /\ \E cfg \in RunConfigs : encoder = cfg[1] /\ decoder = cfg[2]
  /\ NoCall /\ NoAttn

\* before construction
InitCtor ==
  /\ pc = "UNBUILT"
  /\ encoder = <<>> /\ decoder = <<>>
  /\ NoCall /\ NoAttn

\* Seq2Seq(encoder, decoder, device)
Construct ==
  /\ pc = "UNBUILT"
  /\ \E enc \in EncoderConfigs, dec \in DecoderConfigs :
       /\ Seq2SeqInit(enc, dec)
       /\ encoder' = enc
       /\ decoder' = dec
  /\ pc' = "IDLE"
  /\ UNCHANGED <<fwdVars, x, a_t>>

\* model(src, trg, teacher_forcing_ratio) with the generator seeded
Call ==
  /\ pc = "IDLE"
  /\ \E n \in 1 .. MaxTrgLen, b \in 1 .. MaxBatch :
       /\ src' \in Tensor2(MaxSrcLen, b, {0})
       /\ trg' \in TrgTensors(n, b)
       /\ seed' \in SeedTapes(n - 1)
       /\ rng' = seed'
  /\ teacher_forcing_ratio' \in Ratios
  /\ run' = run + 1
  /\ pc' = "INIT"
  /\ UNCHANGED <<encoder, decoder, outputs, enc_states, hidden, cell, input, t,
                 encCalls, log, decMemo, prev, x, a_t>>

\* forward, up to the loop
ForwardInit ==
  /\ pc = "INIT"
  /\ LET r == EncoderForward(encoder, src) IN
       /\ outputs' = ZeroOutputs(trg_len, batch_size)
       /\ enc_states' = r.outputs
       /\ cell' = r.cell
       /\ hidden' = InitialHidden(r.hidden)
  /\ encCalls' = 1
  /\ log' = <<>>
  /\ input' = FirstInput(trg)
  /\ t' = 1
  /\ pc' = "STEPPING"
  /\ UNCHANGED <<encoder, decoder, src, trg, teacher_forcing_ratio, seed, rng,
                 decMemo, run, prev, x, a_t>>

\* one iteration of the loop
Step ==
  /\ pc = "STEPPING"
  /\ LoopContinues(t, trg_len)
  /\ \E output \in Predictions(batch_size) :
       /\ DecoderReturns(input, hidden, enc_states, output)
       /\ LET hidden_out == DecoderHidden(input, hidden, enc_states)
              draw == Head(rng)
              teacher_force == TeacherForce(draw, teacher_forcing_ratio)
              top1 == Argmax(output)
              nxt == NextInput(teacher_force, trg[t], top1)
          IN /\ outputs' = StoreOutput(outputs, t, output)
             /\ hidden' = hidden_out
             /\ rng' = Tail(rng)
             /\ input' = nxt
             /\ log' = Append(log, [t |-> t, input |-> input, hidden |-> hidden,
                                    enc |-> enc_states, output |-> output,
                                    hidden_out |-> hidden_out, draw |-> draw,
                                    next |-> nxt])
             /\ decMemo' = decMemo \cup
                  {[key |-> MemoKey(input, hidden, enc_states), prediction |-> output]}
  /\ t' = t + 1
  /\ UNCHANGED <<pc, encoder, decoder, src, trg, teacher_forcing_ratio, seed,
                 enc_states, cell, encCalls, run, prev, x, a_t>>

\* return outputs
Return ==
  /\ pc = "STEPPING"
  /\ ~LoopContinues(t, trg_len)
  /\ pc' = "DONE"
  /\ UNCHANGED <<encoder, decoder, fwdVars, x, a_t>>

\* the same call again, the generator re-seeded with the same seed
Recall ==
  /\ pc = "DONE"
  /\ run = 1
  /\ prev' = <<[outputs |-> outputs, log |-> log]>>
  /\ rng' = seed
  /\ run' = run + 1
  /\ pc' = "INIT"
  /\ UNCHANGED <<encoder, decoder, src, trg, teacher_forcing_ratio, seed,
                 outputs, enc_states, hidden, cell, input, t, encCalls, log,
                 decMemo, x, a_t>>

Next == Call \/ ForwardInit \/ Step \/ Return

Spec == Init /\ [][Next]_vars

\* forward is synchronous and single-threaded: a started call keeps running
FairSpec == Spec /\ WF_vars(Next)

NextCtor == Construct \/ Next

SpecCtor == InitCtor /\ [][NextCtor]_vars

\* one fixed configuration, and every call made twice
InitDet ==
  /\ pc = "IDLE"
  /\ encoder = [hid_dim |-> 1, n_layers |-> 1, bidirectional |-> TRUE]
  /\ decoder = [dec_hid_dim |-> 1, output_dim |-> VocabSize]
  /\ NoCall /\ NoAttn

NextDet == Next \/ Recall

SpecDet == InitDet /\ [][NextDet]_vars

\* ---------------------------------------------------------- Attention
\* torch.exp at the integers, in tenths
Exp(k) == CASE k = 0 - 1 -> 4 [] k = 0 -> 10 [] k = 1 -> 27

RECURSIVE SumTo(_, _)
\* f[0] + ... + f[n]
SumTo(f, n) == IF n < 0 THEN 0 ELSE f[n] + SumTo(f, n - 1)

\* slip: torch.sum(e_x, dim=1)
DenominatorBatchAxis(e_x, i, b) ==
  SumTo([c \in DOMAIN e_x[i] |-> e_x[i][c]], Dim1(e_x) - 1)

\* torch.sum(e_x, dim=0), broadcast back over dim 0
Denominator(e_x, i, b) == SumTo([j \in DOMAIN e_x |-> e_x[j][b]], Dim0(e_x) - 1)

\* each weight is the exact quotient num / den
softmax(xx, temperature) ==
  LET e_x == [i \in DOMAIN xx |-> [b \in DOMAIN xx[i] |-> Exp(xx[i][b] \div temperature)]]
  IN [i \in DOMAIN xx |-> [b \in DOMAIN xx[i] |->
        [num |-> e_x[i][b], den |-> Denominator(e_x, i, b)]]]

\* self.v(energy) for some hidden state and encoder outputs
InitAttn ==
  /\ pc = "ATTN"
  /\ encoder = <<>> /\ decoder = <<>>
  /\ NoCall
  /\ \E m \in 1 .. MaxSrcLen, b \in 1 .. MaxBatch : x \in Tensor2(m, b, Energies)
  /\ a_t = <<>>

AttentionForward ==
  /\ pc = "ATTN"
  /\ a_t' = softmax(x, Temperature)
  /\ pc' = "ATTN_DONE"
  /\ UNCHANGED <<encoder, decoder, fwdVars, x>>

NextAttn == AttentionForward

SpecAttn == InitAttn /\ [][NextAttn]_vars

\* ================================================================ claims
Started == pc \in {"STEPPING", "DONE"}
Steps == 1 .. Len(log)
ZeroRow == [v \in Vocab |-> 0]

\* C1 as stated: with teacher_forcing_ratio = 1.0 the decoder's input at
\* step t is trg[t].
C1_FedIsTrgAtT ==
  (Started /\ teacher_forcing_ratio = 100) =>
    \A i \in Steps : log[i].input = trg[log[i].t]

\* C1 amended: with teacher_forcing_ratio = 1.0 the decoder's input at step
\* t is trg[t-1]; trg[t] is the input chosen at the end of step t.
C1_FedIsTrgBeforeT ==
  (Started /\ teacher_forcing_ratio = 100) =>
    \A i \in Steps : /\ log[i].input = trg[log[i].t - 1]
                     /\ log[i].next = trg[log[i].t]

C1_Witness ==
  /\ pc = "DONE" /\ teacher_forcing_ratio = 100
  /\ Len(log) = 2 /\ trg[1] # trg[0] /\ trg[2] # trg[1]
  /\ log[2].input = trg[1]

\* C2 as stated: with teacher_forcing_ratio = 0.0 the decoder's input at
\* every step t >= 1 is the argmax of the scores at output position t-1.
C2_FedIsArgmaxPrev ==
  (Started /\ teacher_forcing_ratio = 0) =>
    \A i \in Steps : log[i].input = Argmax(outputs[log[i].t - 1])

\* C2 amended: with teacher_forcing_ratio = 0.0 the decoder's input at step
\* 1 is trg[0], and at every step t >= 2 it is the argmax of the scores at
\* output position t-1.
C2_FedIsArgmaxPrevFrom2 ==
  (Started /\ teacher_forcing_ratio = 0) =>
    \A i \in Steps :
      /\ log[i].t = 1 => log[i].input = trg[0]
      /\ log[i].t >= 2 => log[i].input = Argmax(outputs[log[i].t - 1])

C2_Witness ==
  /\ pc = "DONE" /\ teacher_forcing_ratio = 0 /\ Len(log) = 2
  /\ log[1].input # Argmax(outputs[0])
  /\ log[2].input = Argmax(outputs[1]) /\ log[2].input # trg[1]

\* C3: position 0 of the output tensor is all zeros from its allocation to
\* the return, whatever the decoder produced.
C3_PositionZeroIsZero ==
  Started => \A b \in DOMAIN outputs[0] : outputs[0][b] = ZeroRow

C3_Witness ==
  /\ pc = "DONE" /\ trg_len = MaxTrgLen
  /\ \A p \in 1 .. (trg_len - 1) : \A b \in DOMAIN outputs[p] : outputs[p][b] # ZeroRow
  /\ \A b \in DOMAIN outputs[0] : outputs[0][b] = ZeroRow

\* the encoder has run once before any decoder call, and the decoder calls so
\* far are those of t = 1, 2, ...
C4_CallsInOrder ==
  /\ pc \in {"IDLE", "INIT"} => encCalls = 0 /\ log = <<>>
  /\ Started => /\ encCalls = 1
                /\ Len(log) = t - 1
                /\ \A i \in Steps : log[i].t = i
  /\ pc = "DONE" => Len(log) = trg_len - 1

\* C4: a forward call goes INIT -> STEPPING -> DONE and ends; the encoder
\* runs once, before any decoder call; the decoder runs trg_len - 1 times,
\* at t = 1, 2, ..., trg_len - 1.
C4_Lifecycle ==
  /\ []C4_CallsInOrder
  /\ [][/\ pc = "INIT" => pc' = "STEPPING"
        /\ pc = "STEPPING" => pc' \in {"STEPPING", "DONE"}
        /\ pc = "DONE" => pc' = "DONE"
        /\ Len(log') > Len(log) => encCalls = 1 /\ Len(log') = Len(log) + 1]_vars
  /\ (pc = "INIT") ~> (pc = "DONE")

C4_Witness == pc = "DONE" /\ trg_len = MaxTrgLen /\ Len(log) = MaxTrgLen - 1

\* the encoder's hidden size as the assertion of __init__ counts it
EffectiveEncHidDim(enc) == enc.hid_dim * n_directions(enc)

\* C5 as stated: a constructed Seq2Seq has an encoder whose effective hidden
\* size (hid_dim, doubled when bidirectional) equals the decoder's.

C5_DimsAgreeOnceBuilt ==
  pc # "UNBUILT" => EffectiveEncHidDim(encoder) = decoder.dec_hid_dim

\* C6: a call repeated with the same arguments, the same seed and the same
\* decoder function feeds the decoder the same inputs and returns the same
\* output tensor as the first call.
C6_SecondRunAgrees ==
  (pc = "DONE" /\ run = 2) => /\ outputs = prev[1].outputs
                              /\ log = prev[1].log

C6_Witness ==
  /\ pc = "DONE" /\ run = 2 /\ Len(log) = 2
  /\ log[1].draw # log[2].draw
  /\ outputs = prev[1].outputs

RECURSIVE CrossSum(_, _, _)
\* the fraction w[0][b] + ... + w[n][b], over the product of the denominators
CrossSum(w, b, n) ==
  IF n < 0 THEN [num |-> 0, den |-> 1]
  ELSE LET r == CrossSum(w, b, n - 1)
       IN [num |-> r.num * w[n][b].den + w[n][b].num * r.den,
           den |-> r.den * w[n][b].den]

\* C7: the attention weights of each batch element are non-negative and add
\* up to exactly 1 over the source positions.

C7_WeightsSumToOne ==
  pc = "ATTN_DONE" =>
    \A b \in DOMAIN a_t[0] :
      /\ \A i \in DOMAIN a_t : a_t[i][b].num >= 0 /\ a_t[i][b].den > 0
      /\ LET s == CrossSum(a_t, b, Dim0(a_t) - 1) IN s.num = s.den

C7_Witness ==
  /\ pc = "ATTN_DONE" /\ Dim0(a_t) = 2 /\ Dim1(a_t) = 2
  /\ x[0][0] # x[1][0] /\ x[0][0] # x[0][1]
  /\ a_t[0][0].num + a_t[1][0].num = a_t[0][0].den

\* C8: each step consumes one draw, trg_len - 1 in all, and the draw picks
\* the next input for the whole batch: all of trg[t] or all of the argmax row.
C8_OneDrawPerStep ==
  Started =>
    /\ Len(rng) = Len(seed) - Len(log)
    /\ pc = "DONE" => rng = <<>> /\ Len(log) = trg_len - 1
    /\ \A i \in Steps :
         /\ log[i].draw = seed[i]
         /\ log[i].next = IF log[i].draw < teacher_forcing_ratio
                          THEN trg[log[i].t]
                          ELSE Argmax(log[i].output)

C8_Witness ==
  /\ pc = "DONE" /\ batch_size = 2 /\ Len(log) = 2
  /\ teacher_forcing_ratio = 50
  /\ log[1].draw = 0 /\ log[2].draw = 99
  /\ log[1].next = trg[1] /\ \A b \in 0 .. 1 : trg[1][b] # Argmax(log[1].output)[b]
  /\ log[2].next = Argmax(log[2].output)
  /\ \A b \in 0 .. 1 : trg[2][b] # Argmax(log[2].output)[b]

\* C9: a step writes output position t with the scores of its decoder call
\* and leaves every other position and the encoder outputs as they were, so
\* positions 1..trg_len-1 each hold the scores of their own step and every
\* decoder call saw the same encoder outputs.
C9_StepFrame ==
  /\ [][(pc = "STEPPING" /\ pc' = "STEPPING") =>
          /\ enc_states' = enc_states
          /\ outputs'[t] = log'[Len(log')].output
          /\ \A p \in DOMAIN outputs : p # t => outputs'[p] = outputs[p]]_vars
  /\ [](Started =>
          /\ \A i \in Steps : outputs[i] = log[i].output /\ log[i].enc = enc_states
          /\ \A p \in DOMAIN outputs : p > Len(log) =>
               \A b \in DOMAIN outputs[p] : outputs[p][b] = ZeroRow)

C9_Witness ==
  /\ pc = "DONE" /\ Len(log) = 2
  /\ outputs[1] # outputs[2] /\ outputs[1] = log[1].output /\ outputs[2] = log[2].output

\* C10: the decoder's hidden state at step 1 is the last entry of the
\* encoder's hidden stack as a one-layer stack, at each later step it is the
\* state the previous step returned, and no cell state or other entry of the
\* encoder's stack is ever passed.
C10_HiddenThreaded ==
  Started =>
    LET r == EncoderForward(encoder, src)
        last == Dim0(r.hidden) - 1
    IN /\ \A i \in Steps :
            /\ Len(log[i].hidden) = 1
            /\ i = 1 => log[i].hidden = <<r.hidden[last]>>
            /\ i > 1 => log[i].hidden = log[i - 1].hidden_out
            /\ \A k \in DOMAIN r.cell : log[i].hidden[1] # r.cell[k]
            /\ \A k \in DOMAIN r.hidden : k # last => log[i].hidden[1] # r.hidden[k]
       /\ hidden = IF log = <<>> THEN <<r.hidden[last]>> ELSE log[Len(log)].hidden_out

C10_Witness ==
  /\ pc = "DONE" /\ Len(log) = 2 /\ encoder.bidirectional
  /\ log[1].hidden[1].op = "h_n" /\ log[1].hidden[1].k = 1
  /\ log[2].hidden = log[1].hidden_out
====
